---------------------------- MODULE Spec2Model ----------------------------
(***************************************************************************)
(* The session and camera-configuration API routes of VisionAI:            *)
(*   POST   /api/auth/session     (login)                                  *)
(*   DELETE /api/auth/session     (logout)                                 *)
(*   POST   /api/configs/camera   (register a camera on a location)        *)
(* over a relational store reached through db.query.                       *)
(*                                                                         *)
(* Strings of request bodies are sequences of one-character strings, so    *)
(* that the schema checks (length, e-mail shape, URL shape) are computed.  *)
(* Time is in seconds.                                                     *)
(***************************************************************************)
EXTENDS Integers, Sequences, FiniteSets, TLC

VARIABLES
    users,      \* rows of table users      [id, email, password]
    factories,  \* rows of table factories  [id, user_id]
    locations,  \* rows of table locations  [id, factory_id]
    cameras,    \* rows of table cameras, in insertion order
    now,        \* the clock, in seconds
    session,    \* the access token the client got at its last login, and
                \* whether a logout has answered since
    pend,       \* a camera POST between its ownership check and its insert
    last        \* the last request answered, with its response

vars == <<users, factories, locations, cameras, now, session, pend, last>>

----------------------------------------------------------------------------
\* Bounds of the model.

MaxCameras == 1

MaxTicks == 1

----------------------------------------------------------------------------
\* JSON values of a request body.

JUndef == [t |-> "undefined", n |-> 0, d |-> 1, s |-> <<>>]

JNum(n) == [t |-> "number", n |-> n, d |-> 1, s |-> <<>>]

JFrac(n, d) == [t |-> "number", n |-> n, d |-> d, s |-> <<>>]

JStr(s) == [t |-> "string", n |-> 0, d |-> 1, s |-> s]

Letters == {"a", "b", "c", "h", "i", "m", "o", "p", "r", "s", "t", "x"}

Positions(s, ch) == {i \in 1..Len(s) : s[i] = ch}

\* z.email(): one "@", a local part that does not start with a dot, and a
\* domain of dot-separated labels ending in a label of two letters or more.
IsEmail(v) ==
    /\ v.t = "string"
    /\ Cardinality(Positions(v.s, "@")) = 1
    /\ LET at == CHOOSE i \in Positions(v.s, "@") : TRUE
           dots == {i \in Positions(v.s, ".") : i > at}
       IN  /\ at > 1
           /\ v.s[1] # "."
           /\ dots # {}
           /\ \A i \in dots : i > at + 1 /\ i < Len(v.s) /\ (i - 1) \notin dots
           /\ LET lastDot == CHOOSE i \in dots : \A j \in dots : j <= i
              IN  /\ Len(v.s) - lastDot >= 2
                  /\ \A j \in (lastDot + 1)..Len(v.s) : v.s[j] \in Letters

\* z.string().min(6)
IsPassword(v) == v.t = "string" /\ Len(v.s) >= 6

\* z.string().min(1, ...)
IsName(v) == v.t = "string" /\ Len(v.s) >= 1

\* z.string().url(): the string parses as a URL: a scheme of letters, a
\* colon, and something after it.
IsUrl(v) ==
    /\ v.t = "string"
    /\ \E i \in 2..Len(v.s) :
          /\ v.s[i] = ":"
          /\ \A j \in 1..(i - 1) : v.s[j] \in Letters
          /\ i < Len(v.s)

\* z.string().url(...).optional().or(z.literal(""))
IsStreamUrl(v) == v.t = "undefined" \/ IsUrl(v) \/ (v.t = "string" /\ v.s = <<>>)

\* z.number().int().positive(...)
IsLocationId(v) == v.t = "number" /\ v.d = 1 /\ v.n > 0


----------------------------------------------------------------------------
\* Tokens (jsonwebtoken) and cookies (cookie.serialize).

JwtAccessSecret == "JWT_ACCESS_SECRET"

JwtRefreshSecret == "JWT_REFRESH_SECRET"

\* A cookie value: absent, the empty string, a string that is no JWT, or a
\* JWT with its payload and the secret that signed it.
NoCookie == [kind |-> "absent", userId |-> 0, iat |-> 0, exp |-> 0, key |-> ""]

EmptyCookie == [kind |-> "empty", userId |-> 0, iat |-> 0, exp |-> 0, key |-> ""]

GarbageCookie == [kind |-> "garbage", userId |-> 0, iat |-> 0, exp |-> 0, key |-> ""]

\* the ms package: a number and a unit, in milliseconds
Ms(span) ==
    span.n * (CASE span.unit = "s" -> 1000
                [] span.unit = "m" -> 60 * 1000
                [] span.unit = "h" -> 60 * 60 * 1000
                [] span.unit = "d" -> 24 * 60 * 60 * 1000)

\* jsonwebtoken's timespan: the expiry of a token issued at iat
Timespan(span, iat) == iat + (Ms(span) \div 1000)

\* sign({ userId }, secret, { expiresIn })
Sign(userId, secret, expiresIn, iat) ==
    [kind |-> "jwt", userId |-> userId, iat |-> iat,
     exp |-> Timespan(expiresIn, iat), key |-> secret]

\* verify(token, secret) returns the payload; it throws on a string that is
\* no JWT, on a signature made with another secret and on an expired token.
Verify(token, secret, clock) ==
    /\ token.kind = "jwt"
    /\ token.key = secret
    /\ clock < token.exp

AccessExpiresIn == [n |-> 15, unit |-> "m"]

RefreshExpiresIn == [n |-> 7, unit |-> "d"]

\* a faulty variant: the lifetime given in milliseconds
AccessMaxAge_Millis == 15 * 60 * 1000

AccessMaxAge == 15 * 60

RefreshMaxAge == 60 * 60 * 24 * 7

ClearedMaxAge == 0 - 1

\* process.env.NODE_ENV of the deployment
NodeEnv == "production"

\* serialize(name, value, { httpOnly, secure, sameSite, maxAge, path })
Serialize(name, value, maxAge, env) ==
    [name |-> name, value |-> value, httpOnly |-> TRUE,
     secure |-> (env = "production"), sameSite |-> "strict",
     maxAge |-> maxAge, path |-> "/"]

\* bcrypt: the stored hash of a password; salts are left out
BcryptHash(pw) == <<"$2b$">> \o pw

\* a faulty variant: the comparison accepts any password
BcryptCompare_Always(pw, hash) == TRUE

\* bcrypt.compare(password, hash)
BcryptCompare(pw, hash) == hash = BcryptHash(pw)

----------------------------------------------------------------------------
\* What a handler's try block ends with: a response that is returned, an
\* error that is thrown, or (camera POST) the ownership check passed.

SqlNull == [null |-> TRUE, s |-> <<>>]

SqlText(s) == [null |-> FALSE, s |-> s]

NoRow == [id |-> 0, name |-> <<>>, stream_url |-> SqlNull, location_id |-> 0]

Return(status, message, cookies, queries) ==
    [kind |-> "return", error |-> "", status |-> status, message |-> message,
     row |-> NoRow, cookies |-> cookies, queries |-> queries, userId |-> 0,
     inserted |-> <<>>]

Throw(error, message, queries) ==
    [kind |-> "throw", error |-> error, status |-> 0, message |-> message,
     row |-> NoRow, cookies |-> <<>>, queries |-> queries, userId |-> 0,
     inserted |-> <<>>]

----------------------------------------------------------------------------
\* POST /api/auth/session

\* schema.parse(body)
LoginSchemaOk(body) ==
    /\ body.json = "object"
    /\ IsEmail(body.email)
    /\ IsPassword(body.password)

\* SELECT id, name, email, password FROM users WHERE email = $1
SelectUserByEmail(tbl, email) == {u \in tbl : u.email = email}

LoginCookies(userId, clock, env) ==
    << Serialize("accessToken",
                 Sign(userId, JwtAccessSecret, AccessExpiresIn, clock),
                 AccessMaxAge, env),
       Serialize("refreshToken",
                 Sign(userId, JwtRefreshSecret, RefreshExpiresIn, clock),
                 RefreshMaxAge, env) >>

\* the answer when no row has the e-mail
\* a faulty variant: a message of its own for an unknown e-mail
NoSuchUser_Reveals == Return(401, "User not found", <<>>, 1)

NoSuchUser == Return(401, "Invalid credentials", <<>>, 1)

\* the answer when the password does not match the row's hash
WrongPassword == Return(401, "Invalid credentials", <<>>, 1)

\* the try block; fail names the step that fails, if it is reached
LoginTry(body, fail, tbl, clock, env) ==
    IF body.json = "malformed" THEN Throw("SyntaxError", "", 0)
    ELSE IF ~LoginSchemaOk(body) THEN Throw("ZodError", "zod issues", 0)
    ELSE IF fail = "query" THEN Throw("DatabaseError", "", 1)
    ELSE LET rows == SelectUserByEmail(tbl, body.email.s)
         IN  IF rows = {}
             THEN NoSuchUser
             ELSE LET user == CHOOSE u \in rows : TRUE
                  IN  IF fail = "compare" THEN Throw("BcryptError", "", 1)
                      ELSE IF ~BcryptCompare(body.password.s, user.password)
                      THEN WrongPassword
                      ELSE IF fail = "sign" THEN Throw("SignError", "", 1)
                      ELSE [Return(200, "Login successful",
                                   LoginCookies(user.id, clock, env), 1)
                            EXCEPT !.userId = user.id]

\* the catch block
LoginCatch(r) ==
    IF r.error = "ZodError"
    THEN Return(400, r.message, <<>>, r.queries)
    ELSE Return(500, "Internal server error", <<>>, r.queries)

LoginPOST(body, fail, tbl, clock, env) ==
    LET r == LoginTry(body, fail, tbl, clock, env)
    IN  IF r.kind = "throw" THEN LoginCatch(r) ELSE r

----------------------------------------------------------------------------
\* DELETE /api/auth/session

LogoutCookies(env) ==
    << Serialize("accessToken", EmptyCookie, ClearedMaxAge, env),
       Serialize("refreshToken", EmptyCookie, ClearedMaxAge, env) >>

LogoutDELETE(env) == Return(200, "Logout successful", LogoutCookies(env), 0)

----------------------------------------------------------------------------
\* POST /api/configs/camera

CameraSchemaOk(body) ==
    /\ body.json = "object"
    /\ IsName(body.name)
    /\ IsStreamUrl(body.streamUrl)
    /\ IsLocationId(body.locationId)

\* error.issues[0].message: the issues come in the order of the schema's keys
FirstIssue(body) ==
    IF body.json # "object" THEN "Invalid input"
    ELSE IF body.name.t # "string" THEN "Invalid input"
    ELSE IF ~IsName(body.name) THEN "Camera name is required"
    ELSE IF ~IsStreamUrl(body.streamUrl) THEN "Invalid input"
    ELSE IF body.locationId.t # "number" \/ body.locationId.d # 1
    THEN "Invalid input"
    ELSE "Location ID must be a positive integer"

\* a faulty variant: the query without AND f.user_id = $2
LocationCheck_AnyOwner(locs, facs, locationId, userId) ==
    {l \in locs : /\ l.id = locationId
                  /\ \E f \in facs : l.factory_id = f.id}

\* SELECT l.id FROM locations l JOIN factories f ON l.factory_id = f.id
\* WHERE l.id = $1 AND f.user_id = $2
LocationCheck(locs, facs, locationId, userId) ==
    {l \in locs : /\ l.id = locationId
                  /\ \E f \in facs : l.factory_id = f.id /\ f.user_id = userId}

\* a faulty variant: the empty string is stored as it is
StreamUrlOrNull_Keep(v) == IF v.t = "string" THEN SqlText(v.s) ELSE SqlNull

\* streamUrl || null
StreamUrlOrNull(v) ==
    IF v.t = "string" /\ v.s # <<>> THEN SqlText(v.s) ELSE SqlNull

\* INSERT INTO cameras (name, stream_url, location_id) VALUES ($1, $2, $3)
\* RETURNING *
CameraRow(tbl, body) ==
    [id |-> Len(tbl) + 1, name |-> body.name.s,
     stream_url |-> StreamUrlOrNull(body.streamUrl),
     location_id |-> body.locationId.n]

\* the handler up to and including the ownership query
CameraCheck(cookie, body, fail, locs, facs, clock) ==
    IF cookie.kind \in {"absent", "empty"}
    THEN Return(401, "Unauthorized", <<>>, 0)
    ELSE IF ~Verify(cookie, JwtAccessSecret, clock)
    THEN Throw("JsonWebTokenError", "", 0)
    ELSE IF body.json = "malformed" THEN Throw("SyntaxError", "", 0)
    ELSE IF ~CameraSchemaOk(body) THEN Throw("ZodError", FirstIssue(body), 0)
    ELSE IF fail = "check" THEN Throw("DatabaseError", "", 1)
    ELSE IF LocationCheck(locs, facs, body.locationId.n, cookie.userId) = {}
    THEN [Return(404, "Location not found or does not belong to user", <<>>, 1)
          EXCEPT !.userId = cookie.userId]
    ELSE [kind |-> "continue", error |-> "", status |-> 0, message |-> "",
          row |-> NoRow, cookies |-> <<>>, queries |-> 1,
          userId |-> cookie.userId, inserted |-> <<>>]

\* the handler from the insert on
CameraInsert(body, fail, tbl, userId) ==
    IF fail = "insert" THEN Throw("DatabaseError", "", 2)
    ELSE [Return(201, "", <<>>, 2)
          EXCEPT !.row = CameraRow(tbl, body), !.userId = userId,
                 !.inserted = <<CameraRow(tbl, body)>>]

\* a faulty variant: errors other than ZodError leave the handler
CameraCatch_Rethrow(r) ==
    IF r.error = "ZodError"
    THEN [Return(400, r.message, <<>>, r.queries)
          EXCEPT !.inserted = r.inserted]
    ELSE r

\* the catch block
CameraCatch(r) ==
    IF r.error = "ZodError"
    THEN [Return(400, r.message, <<>>, r.queries)
          EXCEPT !.inserted = r.inserted]
    ELSE [Return(500, "Error adding camera", <<>>, r.queries)
          EXCEPT !.inserted = r.inserted]

CameraHandled(r) == IF r.kind = "throw" THEN CameraCatch(r) ELSE r

\* the whole handler, run without interruption
CameraPOST(cookie, body, fail, locs, facs, tbl, clock) ==
    LET c == CameraCheck(cookie, body, fail, locs, facs, clock)
    IN  IF c.kind = "continue"
        THEN CameraHandled(CameraInsert(body, fail, tbl, c.userId))
        ELSE CameraHandled(c)

----------------------------------------------------------------------------
\* The requests that are made.

EmailA == <<"a", "@", "x", ".", "i", "o">>

EmailB == <<"b", "@", "x", ".", "i", "o">>

EmailC == <<"c", "@", "x", ".", "i", "o">>

EmailBad == <<"a", ".", "x">>

PasswordA == <<"s", "e", "c", "r", "e", "t">>

PasswordB == <<"p", "a", "s", "s", "p", "o", "r", "t">>

PasswordShort == <<"a", "b", "c">>

LoginBody(json, email, password) ==
    [json |-> json, email |-> email, password |-> password]

LoginBodies ==
    {LoginBody("malformed", JUndef, JUndef),
     LoginBody("array", JUndef, JUndef),
     LoginBody("object", JStr(EmailA), JUndef),
     LoginBody("object", JStr(EmailBad), JStr(PasswordA)),
     LoginBody("object", JStr(EmailA), JStr(PasswordShort)),
     LoginBody("object", JStr(EmailA), JStr(PasswordA)),
     LoginBody("object", JStr(EmailA), JStr(PasswordB)),
     LoginBody("object", JStr(EmailB), JStr(PasswordB)),
     LoginBody("object", JStr(EmailC), JStr(PasswordA))}

LoginFails == {"none", "query", "compare", "sign"}

CamName == <<"c", "a", "m">>

StreamUrl == <<"r", "t", "s", "p", ":", "/", "/", "c">>

StreamBad == <<"n", "o">>

CameraBody(json, name, streamUrl, locationId) ==
    [json |-> json, name |-> name, streamUrl |-> streamUrl,
     locationId |-> locationId]

ValidCameraBodies ==
    {CameraBody("object", JStr(CamName), JUndef, JNum(1)),
     CameraBody("object", JStr(CamName), JStr(<<>>), JNum(1)),
     CameraBody("object", JStr(CamName), JStr(StreamUrl), JNum(1)),
     CameraBody("object", JStr(CamName), JStr(StreamUrl), JNum(2)),
     CameraBody("object", JStr(CamName), JStr(StreamUrl), JNum(3))}

CameraBodies ==
    ValidCameraBodies
    \cup {CameraBody("malformed", JUndef, JUndef, JUndef),
          CameraBody("array", JUndef, JUndef, JUndef),
          CameraBody("object", JUndef, JUndef, JNum(1)),
          CameraBody("object", JStr(<<>>), JStr(StreamUrl), JNum(1)),
          CameraBody("object", JStr(CamName), JStr(StreamBad), JNum(1)),
          CameraBody("object", JStr(CamName), JStr(StreamUrl), JNum(0)),
          CameraBody("object", JStr(CamName), JUndef, JFrac(3, 2))}

CameraFails == {"none", "check", "insert"}

\* a well-formed token that the access secret did not sign
ForgedCookie == Sign(1, JwtRefreshSecret, RefreshExpiresIn, 0)

\* The cookie of a camera POST: none, one that is no valid token, or the
\* token of the client's last login (after a logout too: the token is a
\* string the client may have kept).
Cookies ==
    {NoCookie, EmptyCookie, GarbageCookie, ForgedCookie}
    \cup (IF session.token.kind = "jwt" THEN {session.token} ELSE {})

NoSession == [token |-> NoCookie, live |-> FALSE]

NoPend ==
    [active |-> FALSE, cookie |-> NoCookie,
     body |-> CameraBody("malformed", JUndef, JUndef, JUndef),
     fail |-> "none", at |-> 0, ended |-> FALSE, userId |-> 0]

NoRequest ==
    [handler |-> "none", body |-> LoginBody("malformed", JUndef, JUndef),
     cookie |-> NoCookie, fail |-> "none", at |-> 0, ended |-> FALSE,
     resp |-> Return(0, "", <<>>, 0)]

TickSeconds == AccessMaxAge

----------------------------------------------------------------------------
\* The state after start-up: two users, each with a factory and a location.

Init ==
    /\ users = {[id |-> 1, email |-> EmailA, password |-> BcryptHash(PasswordA)],
                [id |-> 2, email |-> EmailB, password |-> BcryptHash(PasswordB)]}
    /\ factories = {[id |-> 1, user_id |-> 1], [id |-> 2, user_id |-> 2]}
    /\ locations = {[id |-> 1, factory_id |-> 1], [id |-> 2, factory_id |-> 2]}
    /\ cameras = <<>>
    /\ now = 0
    /\ session = NoSession
    /\ pend = NoPend
    /\ last = NoRequest

Tick ==
    /\ now < MaxTicks * TickSeconds
    /\ now' = now + TickSeconds
    /\ UNCHANGED <<users, factories, locations, cameras, session, pend, last>>

\* A step that fails is one the handler reaches.  The client keeps the access
\* token of a login that succeeds.
Login(body, fail) ==
    LET r == LoginPOST(body, fail, users, now, NodeEnv)
    IN  /\ fail = "none" \/ r # LoginPOST(body, "none", users, now, NodeEnv)
        /\ last' = [handler |-> "login", body |-> body, cookie |-> NoCookie,
                    fail |-> fail, at |-> now, ended |-> FALSE, resp |-> r]
        /\ session' = IF Len(r.cookies) > 0
                      THEN [token |-> r.cookies[1].value, live |-> TRUE]
                      ELSE session
        /\ UNCHANGED <<users, factories, locations, cameras, now, pend>>

Logout ==
    LET r == LogoutDELETE(NodeEnv)
    IN  /\ last' = [handler |-> "logout", body |-> NoRequest.body,
                    cookie |-> NoCookie, fail |-> "none", at |-> now,
                    ended |-> FALSE, resp |-> r]
        /\ session' = [session EXCEPT !.live = FALSE]
        /\ UNCHANGED <<users, factories, locations, cameras, now, pend>>

SessionEnded(cookie) ==
    cookie.kind = "jwt" /\ cookie = session.token /\ ~session.live

Camera(cookie, body, fail) ==
    /\ ~pend.active
    /\ Len(cameras) < MaxCameras
    /\ LET r == CameraPOST(cookie, body, fail, locations, factories, cameras, now)
       IN  /\ \/ fail = "none"
               \/ r # CameraPOST(cookie, body, "none", locations, factories,
                                 cameras, now)
           /\ cameras' = cameras \o r.inserted
           /\ last' = [handler |-> "camera", body |-> body, cookie |-> cookie,
                       fail |-> fail, at |-> now,
                       ended |-> SessionEnded(cookie), resp |-> r]
    /\ UNCHANGED <<users, factories, locations, now, session, pend>>

Next ==
    \/ Tick
    \/ \E body \in LoginBodies, fail \in LoginFails : Login(body, fail)
    \/ Logout
    \/ \E cookie \in Cookies, body \in CameraBodies, fail \in CameraFails :
          Camera(cookie, body, fail)

Spec == Init /\ [][Next]_vars

----------------------------------------------------------------------------
\* Requests that interleave: each await of the camera handler is a point
\* where other requests run.  The ownership query and the insert are two
\* calls of db.query, each its own statement on a pooled connection.

CameraBegin(cookie, body, fail) ==
    /\ ~pend.active
    /\ Len(cameras) < MaxCameras
    /\ LET c == CameraCheck(cookie, body, fail, locations, factories, now)
       IN  /\ \/ fail \in {"none", "insert"}
               \/ c # CameraCheck(cookie, body, "none", locations, factories, now)
           /\ IF c.kind = "continue"
              THEN /\ pend' = [active |-> TRUE, cookie |-> cookie, body |-> body,
                               fail |-> fail, at |-> now,
                               ended |-> SessionEnded(cookie),
                               userId |-> c.userId]
                   /\ last' = last
              ELSE /\ fail # "insert"
                   /\ pend' = pend
                   /\ last' = [handler |-> "camera", body |-> body,
                               cookie |-> cookie, fail |-> fail, at |-> now,
                               ended |-> SessionEnded(cookie),
                               resp |-> CameraHandled(c)]
    /\ UNCHANGED <<users, factories, locations, cameras, now, session>>

CameraFinish ==
    /\ pend.active
    /\ LET r == CameraHandled(CameraInsert(pend.body, pend.fail, cameras,
                                           pend.userId))
       IN  /\ cameras' = cameras \o r.inserted
           /\ last' = [handler |-> "camera", body |-> pend.body,
                       cookie |-> pend.cookie, fail |-> pend.fail,
                       at |-> pend.at, ended |-> pend.ended, resp |-> r]
    /\ pend' = NoPend
    /\ UNCHANGED <<users, factories, locations, now, session>>

\* Other configuration requests change the rows the ownership query reads.
TransferFactory(f, u) ==
    /\ f \in factories
    /\ f.user_id # u
    /\ factories' = (factories \ {f}) \cup {[f EXCEPT !.user_id = u]}
    /\ UNCHANGED <<users, locations, cameras, now, session, pend, last>>

MoveLocation(l, f) ==
    /\ l \in locations
    /\ f \in factories
    /\ l.factory_id # f.id
    /\ locations' = (locations \ {l}) \cup {[l EXCEPT !.factory_id = f.id]}
    /\ UNCHANGED <<users, factories, cameras, now, session, pend, last>>

DeleteLocation(l) ==
    /\ l \in locations
    /\ locations' = locations \ {l}
    /\ UNCHANGED <<users, factories, cameras, now, session, pend, last>>

ConcLoginBodies ==
    {LoginBody("object", JStr(EmailA), JStr(PasswordA)),
     LoginBody("object", JStr(EmailB), JStr(PasswordB))}

NextConc ==
    \/ \E body \in ConcLoginBodies : Login(body, "none")
    \/ \E cookie \in Cookies \ {EmptyCookie, GarbageCookie, ForgedCookie},
          body \in ValidCameraBodies, fail \in CameraFails :
          CameraBegin(cookie, body, fail)
    \/ CameraFinish
    \/ \E f \in factories, u \in {x.id : x \in users} : TransferFactory(f, u)
    \/ \E l \in locations, f \in factories : MoveLocation(l, f)
    \/ \E l \in locations : DeleteLocation(l)

SpecConc == Init /\ [][NextConc]_vars

----------------------------------------------------------------------------
\* The claims.  They speak of the last request answered and its response.

IsLogin == last.handler = "login"

IsLogout == last.handler = "logout"

IsCamera == last.handler = "camera"

\* the request carried an access token that the access secret signed and
\* that had not expired when the request was made
Authentic == /\ last.cookie.kind = "jwt"
             /\ last.cookie.key = JwtAccessSecret
             /\ last.at < last.cookie.exp

\* location l is a location of a factory of user u
Owns(u, l) ==
    \E loc \in locations, fac \in factories :
        loc.id = l /\ loc.factory_id = fac.id /\ fac.user_id = u

ValidCameraRequest == IsCamera /\ Authentic /\ CameraSchemaOk(last.body)

Foreign == ~Owns(last.cookie.userId, last.body.locationId.n)

\* C1 as stated: camera POST answers 201 and inserts only for a location of a
\* factory of the token's user, and every authenticated, schema-valid request
\* for a location that is missing or another user's is answered 404 and
\* inserts nothing.
C1_ForeignLocationAlways404 ==
    IsCamera =>
        /\ (last.resp.status = 201 \/ last.resp.inserted # <<>>) =>
              /\ Authentic
              /\ Owns(last.cookie.userId, last.body.locationId.n)
        /\ (ValidCameraRequest /\ Foreign) =>
              last.resp.status = 404 /\ last.resp.inserted = <<>>

\* C1 as amended: the same, except that the request for a foreign location is
\* answered 500 when its ownership query fails; it inserts nothing either way,
\* so no request with A's token creates a camera on a location of B.
C1_OnlyOwnedLocations ==
    IsCamera =>
        /\ (last.resp.status = 201 \/ last.resp.inserted # <<>>) =>
              /\ Authentic
              /\ Owns(last.cookie.userId, last.body.locationId.n)
              /\ last.resp.status = 201
              /\ Len(last.resp.inserted) = 1
              /\ last.resp.inserted[1].location_id = last.body.locationId.n
        /\ (ValidCameraRequest /\ Foreign) =>
              /\ last.resp.inserted = <<>>
              /\ IF last.fail = "check"
                 THEN last.resp.status = 500
                 ELSE last.resp.status = 404
        /\ \A i \in 1..Len(cameras) : \E u \in users : Owns(u.id, cameras[i].location_id)

\* C1's case: user 1's valid token asks for user 2's location and gets 404.
C1_Witness ==
    /\ ValidCameraRequest
    /\ last.cookie.userId = 1
    /\ last.body.locationId.n = 2
    /\ Owns(2, 2)
    /\ last.resp.status = 404
    /\ cameras = <<>>

\* C2 as stated: a camera POST whose accessToken cookie is absent or fails
\* verification is answered 401 and issues no database query.
C2_Unauthenticated401 ==
    (IsCamera /\ ~Authentic) =>
        last.resp.status = 401 /\ last.resp.queries = 0

\* C3 as stated: once logout has answered, a camera POST that presents the
\* access token of the preceding login is not served for that user (it
\* reaches neither 201 nor 404).
C3_LoggedOutTokenRefused ==
    (IsCamera /\ last.ended) => last.resp.status \notin {201, 404}

LoginRows == {u \in users : u.email = last.body.email.s}

CredentialsOk ==
    /\ LoginSchemaOk(last.body)
    /\ Cardinality(LoginRows) = 1
    /\ \A u \in LoginRows : u.password = BcryptHash(last.body.password.s)

LoginSucceeded ==
    /\ last.resp.status = 200
    /\ last.resp.message = "Login successful"
    /\ {last.resp.cookies[i].name : i \in 1..Len(last.resp.cookies)}
          = {"accessToken", "refreshToken"}

LoginCookiesRight ==
    /\ Len(last.resp.cookies) = 2
    /\ \A i \in 1..2 :
          /\ last.resp.cookies[i].httpOnly
          /\ last.resp.cookies[i].path = "/"
          /\ last.resp.cookies[i].value.kind = "jwt"
          /\ \A u \in LoginRows : last.resp.cookies[i].value.userId = u.id
    /\ last.resp.cookies[1].value.key = JwtAccessSecret
    /\ last.resp.cookies[2].value.key = JwtRefreshSecret

\* C4 as stated: login answers 200 and sets both cookies if and only if the
\* body is schema-valid, one user row has the e-mail and the password matches
\* its hash; the tokens carry that row's id, the cookies are HTTP-only with
\* path "/", and no other outcome sends Set-Cookie.
C4_LoginIffCredentials ==
    IsLogin =>
        /\ LoginSucceeded <=> CredentialsOk
        /\ LoginSucceeded => LoginCookiesRight
        /\ ~LoginSucceeded => last.resp.cookies = <<>>

\* C4 as amended: the same, with "and the user query, the password comparison
\* and the signing all succeed" added to the condition; when one of them
\* fails the answer is 500 and no Set-Cookie is sent.
C4_LoginIffCredentialsAndNoFailure ==
    IsLogin =>
        /\ LoginSucceeded <=> (CredentialsOk /\ last.fail = "none")
        /\ LoginSucceeded => LoginCookiesRight
        /\ ~LoginSucceeded => last.resp.cookies = <<>>
        /\ (CredentialsOk /\ last.fail # "none") => last.resp.status = 500
        /\ last.resp.status \in {200, 400, 401, 500}

\* C4's case: user 2 logs in and gets both cookies with userId 2.
C4_Witness ==
    /\ IsLogin
    /\ CredentialsOk
    /\ LoginSucceeded
    /\ last.body.email.s = EmailB
    /\ last.resp.cookies[1].value.userId = 2
    /\ last.resp.cookies[2].value.userId = 2

UnknownEmail == LoginSchemaOk(last.body) /\ LoginRows = {}

BadPassword ==
    /\ LoginSchemaOk(last.body)
    /\ LoginRows # {}
    /\ \A u \in LoginRows : u.password # BcryptHash(last.body.password.s)

InvalidCredentials401 ==
    /\ last.resp.status = 401
    /\ last.resp.message = "Invalid credentials"
    /\ last.resp.cookies = <<>>

\* C5 as stated: login answers 401 "Invalid credentials", with the same
\* status, body and headers, when no user has the e-mail and when the
\* password does not match.
C5_Always401 ==
    (IsLogin /\ (UnknownEmail \/ BadPassword)) => InvalidCredentials401

\* C5 as amended: the two cases get the same 401 "Invalid credentials"
\* response whenever no step fails; a failing user query (either case) or
\* password comparison (second case) is answered 500 instead.  Every 401 of
\* login is that one response.
C5_Same401UnlessFailure ==
    IsLogin =>
        /\ (UnknownEmail \/ BadPassword) =>
              IF last.fail = "none"
              THEN InvalidCredentials401
              ELSE /\ last.resp.status = 500
                   /\ last.resp.message = "Internal server error"
                   /\ last.resp.cookies = <<>>
        /\ last.resp.status = 401 =>
              /\ InvalidCredentials401
              /\ UnknownEmail \/ BadPassword

\* C5's case: an e-mail no user has is answered 401 "Invalid credentials".
C5_Witness ==
    /\ IsLogin
    /\ UnknownEmail
    /\ last.body.email.s = EmailC
    /\ InvalidCredentials401

\* C6 as stated: login answers 400 and runs no query for a malformed e-mail
\* or a password under 6 characters, and an authenticated camera POST answers
\* 400 and runs no query for any invalid body, a body that is not a JSON
\* object included.
C6_InvalidBody400 ==
    /\ (IsLogin /\ last.body.json = "object" /\ ~LoginSchemaOk(last.body)) =>
          last.resp.status = 400 /\ last.resp.queries = 0
    /\ (IsCamera /\ Authentic /\ ~CameraSchemaOk(last.body)) =>
          last.resp.status = 400 /\ last.resp.queries = 0

\* C7: at login the access token expires 900 s after issue and its cookie has
\* Max-Age 900, the refresh token expires 604800 s after issue and its cookie
\* has Max-Age 604800; logout always answers 200 "Logout successful" with both
\* cookies emptied and a negative Max-Age.
C7_CookieLifetimes ==
    /\ (IsLogin /\ last.resp.status = 200) =>
          /\ Len(last.resp.cookies) = 2
          /\ last.resp.cookies[1].name = "accessToken"
          /\ last.resp.cookies[1].maxAge = 900
          /\ last.resp.cookies[1].value.iat = last.at
          /\ last.resp.cookies[1].value.exp = last.at + 900
          /\ last.resp.cookies[2].name = "refreshToken"
          /\ last.resp.cookies[2].maxAge = 604800
          /\ last.resp.cookies[2].value.iat = last.at
          /\ last.resp.cookies[2].value.exp = last.at + 604800
          /\ \A i \in 1..2 :
                last.resp.cookies[i].maxAge
                    = last.resp.cookies[i].value.exp - last.resp.cookies[i].value.iat
    /\ IsLogout =>
          /\ last.resp.status = 200
          /\ last.resp.message = "Logout successful"
          /\ Len(last.resp.cookies) = 2
          /\ last.resp.cookies[1].name = "accessToken"
          /\ last.resp.cookies[2].name = "refreshToken"
          /\ \A i \in 1..2 :
                /\ last.resp.cookies[i].value.kind = "empty"
                /\ last.resp.cookies[i].maxAge < 0

\* C7's case: a login that succeeds after the clock has moved, so that the
\* expiry is not the lifetime itself.
C7_Witness ==
    /\ IsLogin
    /\ last.resp.status = 200
    /\ last.at > 0
    /\ last.resp.cookies[1].value.exp = last.at + last.resp.cookies[1].maxAge

\* the row a camera request asks for
RequestedRow(body, id) ==
    [id |-> id, name |-> body.name.s,
     stream_url |-> IF body.streamUrl.t = "undefined" \/ body.streamUrl.s = <<>>
                    THEN SqlNull
                    ELSE SqlText(body.streamUrl.s),
     location_id |-> body.locationId.n]

\* C8: a step changes the database only by the 201 outcome of camera POST,
\* which appends one row with the request's name and location_id and its
\* streamUrl, or null when that is absent or empty; every other outcome
\* leaves all four tables as they were.
C8_OnlyCreatedCameraChangesDb ==
    [][ /\ users' = users
        /\ factories' = factories
        /\ locations' = locations
        /\ \/ cameras' = cameras
           \/ /\ last'.handler = "camera"
              /\ last'.resp.status = 201
              /\ cameras' = Append(cameras,
                                   RequestedRow(last'.body, Len(cameras) + 1))
              /\ last'.resp.row = cameras'[Len(cameras')]
        /\ (last' # last /\ last'.resp.status # 201) => cameras' = cameras
        /\ (last' # last /\ last'.resp.status = 201) => cameras' # cameras
      ]_vars

\* C8's case: a camera created with the empty streamUrl has stream_url null.
C8_Witness ==
    /\ IsCamera
    /\ last.resp.status = 201
    /\ last.body.streamUrl = JStr(<<>>)
    /\ Len(cameras) > 0
    /\ cameras[Len(cameras)].stream_url = SqlNull
    /\ cameras[Len(cameras)] = last.resp.row

C10_DocumentedStatuses ==
    /\ IsCamera => last.resp.status \in {201, 400, 401, 404, 500}
    /\ IsLogin => last.resp.status \in {200, 400, 401, 500}
    /\ IsLogout => last.resp.status = 200
    /\ ((IsCamera \/ IsLogin) /\ last.fail # "none") => last.resp.status = 500
    /\ (IsCamera /\ last.resp.status = 500) => last.resp.inserted = <<>>
    /\ last.resp.kind = "return"

\* C10's case: the insert of a camera POST fails after its ownership check
\* passed; the answer is 500 and the table is as before.
C10_Witness ==
    /\ IsCamera
    /\ last.fail = "insert"
    /\ last.resp.queries = 2
    /\ last.resp.status = 500
    /\ cameras = <<>>

=============================================================================
